---- MODULE Spec2Model ----
(***************************************************************************)
(* The vector and geometry kernel of geometry.hh: Geometry, Vector and     *)
(* Vector2D<T> (instantiated as Coor = Vector2D<int> and Vec2D =           *)
(* Vector2D<real_t>).                                                      *)
(*                                                                         *)
(* real_t is a binary floating-point type.  It is modelled as a small      *)
(* IEEE-754 style format: MantBits bits of precision, round to nearest     *)
(* with ties to even, gradual underflow, overflow to infinity, and NaN.    *)
(* A finite value is the integer number of units of 2^-FracBits, so that   *)
(* 1.0 is One; the smallest subnormal is one unit.                         *)
(***************************************************************************)
EXTENDS Integers, Sequences, FiniteSets

(* ---------------------------------------------------------------------- *)
(* real_t                                                                  *)
(* ---------------------------------------------------------------------- *)

\* bits of precision of real_t
MantBits == 12

\* 1.0 is 2^FracBits units
FracBits == 18

\* every finite value is below 2^TopBits units
TopBits == 30

One == 2^FracBits

PInf == 2^TopBits

NInf == -PInf

NaN == PInf + 7

\* the global tolerance: a small constant, far above the rounding error at 1
EPS == 2^(FracBits - 4)

IsNaN(a) == a = NaN

IsInf(a) == a = PInf \/ a = NInf

isfinite(a) == ~IsNaN(a) /\ ~IsInf(a)

Abs(n) == IF n < 0 THEN -n ELSE n

Sgn(n) == IF n < 0 THEN -1 ELSE 1

RECURSIVE BitLen(_)
BitLen(n) == IF n = 0 THEN 0 ELSE 1 + BitLen(n \div 2)

\* num / den rounded to the nearest integer, ties to even (num >= 0, den > 0)
RNEDiv(num, den) ==
    LET q == num \div den
        r == num % den
    IN  IF 2 * r < den THEN q
        ELSE IF 2 * r > den THEN q + 1
        ELSE IF q % 2 = 0 THEN q ELSE q + 1

\* the real_t nearest to M * 2^t units (M >= 0); PInf on overflow
RoundPow(M, t) ==
    IF M = 0 THEN 0
    ELSE LET L  == BitLen(M)
             q  == IF L + t - MantBits > 0 THEN L + t - MantBits ELSE 0
             sh == t - q
             r  == IF sh >= 0 THEN M * 2^sh
                   ELSE IF -sh > L THEN 0
                   ELSE RNEDiv(M, 2^(-sh))
         IN  IF r = 0 THEN 0
             ELSE IF BitLen(r) + q > TopBits THEN PInf
             ELSE r * 2^q

\* n > 0 as <<m, e>> with n = m * 2^e and 2^(MantBits-1) <= m < 2^MantBits
\* (m is scaled up for a subnormal n, so e may be negative)
Normalized(n) ==
    LET L == BitLen(n)
    IN  IF L >= MantBits THEN <<n \div 2^(L - MantBits), L - MantBits>>
        ELSE <<n * 2^(MantBits - L), L - MantBits>>

\* floor of the square root
RECURSIVE ISqrtBits(_, _, _)
ISqrtBits(x, r, bit) ==
    IF bit = 0 THEN r
    ELSE LET c == r + bit
         IN  ISqrtBits(x, IF c * c <= x THEN c ELSE r, bit \div 2)

ISqrt(x) == ISqrtBits(x, 0, 2^15)

Neg(a) == IF IsNaN(a) THEN NaN ELSE -a

fabs(a) == IF IsNaN(a) THEN NaN ELSE Abs(a)

Add(a, b) ==
    IF IsNaN(a) \/ IsNaN(b) THEN NaN
    ELSE IF IsInf(a) /\ IsInf(b) THEN (IF a = b THEN a ELSE NaN)
    ELSE IF IsInf(a) THEN a
    ELSE IF IsInf(b) THEN b
    ELSE LET s == a + b IN Sgn(s) * RoundPow(Abs(s), 0)

Sub(a, b) == Add(a, Neg(b))

Mul(a, b) ==
    IF IsNaN(a) \/ IsNaN(b) THEN NaN
    ELSE IF IsInf(a) \/ IsInf(b)
         THEN (IF a = 0 \/ b = 0 THEN NaN ELSE Sgn(a) * Sgn(b) * PInf)
    ELSE IF a = 0 \/ b = 0 THEN 0
    ELSE LET A == Normalized(Abs(a))
             B == Normalized(Abs(b))
         IN  Sgn(a) * Sgn(b) * RoundPow(A[1] * B[1], A[2] + B[2] - FracBits)

Div(a, b) ==
    IF IsNaN(a) \/ IsNaN(b) THEN NaN
    ELSE IF IsInf(a) THEN (IF IsInf(b) THEN NaN ELSE Sgn(a) * Sgn(b) * PInf)
    ELSE IF IsInf(b) THEN 0
    ELSE IF b = 0 THEN (IF a = 0 THEN NaN ELSE Sgn(a) * PInf)
    ELSE IF a = 0 THEN 0
    ELSE LET A  == Normalized(Abs(a))
             B  == Normalized(Abs(b))
             n  == A[1] * 2^(MantBits + 2)
             Q  == n \div B[1]
             st == IF n % B[1] = 0 THEN 0 ELSE 1
         IN  Sgn(a) * Sgn(b)
               * RoundPow(2 * Q + st, A[2] - B[2] + FracBits - MantBits - 3)

sqrt(a) ==
    IF IsNaN(a) \/ a < 0 THEN NaN
    ELSE IF a = PInf THEN PInf
    ELSE IF a = 0 THEN 0
    ELSE LET A  == Normalized(a)
             E  == A[2] + FracBits
             od == E % 2
             X  == A[1] * 2^(od + 16)
             R  == ISqrt(X)
             st == IF R * R = X THEN 0 ELSE 1
         IN  RoundPow(2 * R + st, (E - od) \div 2 - 9)

\* comparisons: every comparison with a NaN is false
Lt(a, b) == ~IsNaN(a) /\ ~IsNaN(b) /\ a < b

Ge(a, b) == ~IsNaN(a) /\ ~IsNaN(b) /\ a >= b

Gt(a, b) == Lt(b, a)

\* std::isnormal: finite, not zero, not subnormal
isnormal(a) == isfinite(a) /\ Abs(a) >= 2^(MantBits - 1)

\* int -> real_t
FromInt(i) == Sgn(i) * RoundPow(Abs(i), FracBits)

\* real_t -> int: truncation toward zero (of a finite value)
ToInt(a) == Sgn(a) * (Abs(a) \div One)

(* ---------------------------------------------------------------------- *)
(* common.hh: the fatal assertion and the scalar helpers                   *)
(* ---------------------------------------------------------------------- *)

\* m_assert(expr): aborts the process when expr is false
m_assert(expr) == IF expr THEN "ok" ELSE "abort"

\* ::sqr(x)
sqr(x) == Mul(x, x)

\* ::update_min(dest, val): the new value of dest
update_min(dest, val) == IF Lt(val, dest) THEN val ELSE dest

\* ::update_max(dest, val): the new value of dest
update_max(dest, val) == IF Lt(dest, val) THEN val ELSE dest

\* a call that returned v, and a call that died in m_assert
Returned(v) == [st |-> "ok", v |-> v]

Aborted == [st |-> "abort"]

(* ---------------------------------------------------------------------- *)
(* class Vector                                                            *)
(* ---------------------------------------------------------------------- *)

Vec(x, y, z) == [x |-> x, y |-> y, z |-> z]

\* the two-point constructor with its operands swapped
Vector_from_swapped(p0, p1) == Vec(Sub(p0.x, p1.x), Sub(p0.y, p1.y), Sub(p0.z, p1.z))

\* Vector(p0, p1)
Vector_from(p0, p1) == Vec(Sub(p1.x, p0.x), Sub(p1.y, p0.y), Sub(p1.z, p0.z))

Vector_sqr(v) == Add(Add(Mul(v.x, v.x), Mul(v.y, v.y)), Mul(v.z, v.z))

Vector_mod(v) == sqrt(Vector_sqr(v))

Vector_dot(a, v) == Add(Add(Mul(a.x, v.x), Mul(a.y, v.y)), Mul(a.z, v.z))

\* operator + (const Vector&)
Vector_plus(a, v) == Vec(Add(a.x, v.x), Add(a.y, v.y), Add(a.z, v.z))

\* operator - (const Vector&)
Vector_minus(a, v) == Vec(Sub(a.x, v.x), Sub(a.y, v.y), Sub(a.z, v.z))

\* operator - ()
Vector_neg(a) == Vec(Neg(a.x), Neg(a.y), Neg(a.z))

\* operator * (real_t)
Vector_times(a, p) == Vec(Mul(a.x, p), Mul(a.y, p), Mul(a.z, p))

\* normalize(): the vector is scaled first, the assertion comes after
Vector_normalize(v) ==
    LET m == Div(One, Vector_mod(v))
        scaled == Vector_times(v, m)
    IN  IF m_assert(isnormal(m)) = "ok" THEN Returned(scaled) ELSE Aborted

Vector_get_normalized(v) == Vector_normalize(v)

\* operator == with the fabs left out
Vector_eq_signed(a, v) ==
    /\ Lt(Sub(a.x, v.x), EPS)
    /\ Lt(Sub(a.y, v.y), EPS)
    /\ Lt(Sub(a.z, v.z), EPS)

\* operator ==
Vector_eq(a, v) ==
    /\ Lt(fabs(Sub(a.x, v.x)), EPS)
    /\ Lt(fabs(Sub(a.y, v.y)), EPS)
    /\ Lt(fabs(Sub(a.z, v.z)), EPS)

\* operator !=
Vector_ne(a, v) ==
    \/ Ge(fabs(Sub(a.x, v.x)), EPS)
    \/ Ge(fabs(Sub(a.y, v.y)), EPS)
    \/ Ge(fabs(Sub(a.z, v.z)), EPS)

\* Vector::infinity(): x and y are +infinity, z keeps its default
Vector_infinity == Vec(PInf, PInf, 0)

Vector_isnoraml(v) == isfinite(v.x) /\ isfinite(v.y) /\ isfinite(v.z)

\* reflection with the two terms of the difference swapped
Vector_reflection_swapped(self, v) ==
    LET expr == /\ Lt(fabs(Sub(Vector_sqr(v), One)), EPS)
                /\ Lt(Sub(Vector_sqr(self), One), EPS)
    IN  IF m_assert(expr) = "ok"
        THEN Returned(Vector_minus(
                 v, Vector_times(Vector_times(self, FromInt(2)), Vector_dot(self, v))))
        ELSE Aborted

\* reflection(v): *this is the normal
Vector_reflection(self, v) ==
    LET expr == /\ Lt(fabs(Sub(Vector_sqr(v), One)), EPS)
                /\ Lt(Sub(Vector_sqr(self), One), EPS)
    IN  IF m_assert(expr) = "ok"
        THEN Returned(Vector_minus(
                 Vector_times(Vector_times(self, FromInt(2)), Vector_dot(self, v)), v))
        ELSE Aborted

\* transmission with cos2 added where it is subtracted
Vector_transmission_plus(self, v_in, density) ==
    LET ratio  == Div(One, density)
        cos1   == Neg(Vector_dot(self, v_in))
        cos2sq == Sub(One, Mul(sqr(ratio), Sub(One, sqr(cos1))))
        cos2   == sqrt(cos2sq)
        ret    == Vector_plus(Vector_times(v_in, ratio),
                              Vector_times(self, Add(Mul(ratio, cos1), cos2)))
    IN  IF Lt(cos1, EPS) THEN Returned(Vector_infinity)
        ELSE IF m_assert(Ge(cos1, 0)) = "abort" THEN Aborted
        ELSE IF Lt(cos2sq, 0) THEN Returned(Vector_infinity)
        ELSE Vector_get_normalized(ret)

\* transmission(v_in, density): *this is the normal
Vector_transmission(self, v_in, density) ==
    LET ratio  == Div(One, density)
        cos1   == Neg(Vector_dot(self, v_in))
        cos2sq == Sub(One, Mul(sqr(ratio), Sub(One, sqr(cos1))))
        cos2   == sqrt(cos2sq)
        ret    == Vector_plus(Vector_times(v_in, ratio),
                              Vector_times(self, Sub(Mul(ratio, cos1), cos2)))
    IN  IF Lt(cos1, EPS) THEN Returned(Vector_infinity)
        ELSE IF m_assert(Ge(cos1, 0)) = "abort" THEN Aborted
        ELSE IF Lt(cos2sq, 0) THEN Returned(Vector_infinity)
        ELSE Vector_get_normalized(ret)

(* ---------------------------------------------------------------------- *)
(* int, the T of Coor.  Signed overflow is undefined: the build may give   *)
(* any int.  An int operation is the set of values it can give.            *)
(* ---------------------------------------------------------------------- *)

\* width of int (narrowed, as real_t is)
IntBits == 4

IntMax == 2^(IntBits - 1) - 1

IntMin == -(2^(IntBits - 1))

IntRange == IntMin..IntMax

IntResult(r) == IF r \in IntRange THEN {r} ELSE IntRange

(* ---------------------------------------------------------------------- *)
(* template<typename T> class Vector2D, for T = "int" and T = "real_t"     *)
(* ---------------------------------------------------------------------- *)

Vec2(x, y) == [x |-> x, y |-> y]

\* T - T and T + T: the values the operation can give
TSub(T, a, b) == IF T = "int" THEN IntResult(a - b) ELSE {Sub(a, b)}

TAdd(T, a, b) == IF T = "int" THEN IntResult(a + b) ELSE {Add(a, b)}

\* T -> real_t, and real_t -> T
ToReal(T, a) == IF T = "int" THEN FromInt(a) ELSE a

FromReal(T, r) == IF T = "int" THEN ToInt(r) ELSE r

\* hypot(x, y) of libm: no overflow or underflow inside
hypot(x, y) ==
    LET a  == fabs(x)
        b  == fabs(y)
        hi == IF Lt(a, b) THEN b ELSE a
        lo == IF Lt(a, b) THEN a ELSE b
    IN  IF IsInf(x) \/ IsInf(y) THEN PInf
        ELSE IF IsNaN(x) \/ IsNaN(y) THEN NaN
        ELSE IF hi = 0 THEN 0
        ELSE LET r == Div(lo, hi) IN Mul(hi, sqrt(Add(One, Mul(r, r))))

\* Vector2D<T>(p0, p1): the values it can give
Vector2D_from(T, p0, p1) ==
    {Vec2(x, y) : x \in TSub(T, p1.x, p0.x), y \in TSub(T, p1.y, p0.y)}

\* operator +
Vector2D_plus(T, a, v) ==
    {Vec2(x, y) : x \in TAdd(T, a.x, v.x), y \in TAdd(T, a.y, v.y)}

\* operator ==: fabs of the T-typed difference against EPS
Vector2D_eq(T, a, v) ==
    {Lt(fabs(ToReal(T, dx)), EPS) /\ Lt(fabs(ToReal(T, dy)), EPS) :
        dx \in TSub(T, a.x, v.x), dy \in TSub(T, a.y, v.y)}

Vector2D_mod(T, v) == hypot(ToReal(T, v.x), ToReal(T, v.y))

\* get_normalized(): x * m is a real_t, the constructor takes it as a T
Vector2D_get_normalized(T, v) ==
    LET m0 == Vector2D_mod(T, v)
        m  == Div(One, m0)
    IN  IF m_assert(Gt(m0, EPS)) = "ok"
        THEN Returned(Vec2(FromReal(T, Mul(ToReal(T, v.x), m)),
                           FromReal(T, Mul(ToReal(T, v.y), m))))
        ELSE Aborted

Vector2D_update_min(self, v) == Vec2(update_min(self.x, v.x), update_min(self.y, v.y))

Vector2D_update_max(self, v) == Vec2(update_max(self.x, v.x), update_max(self.y, v.y))

\* update_min with z taken from update_max
Vector_update_min_slip(self, v) ==
    Vec(update_min(self.x, v.x), update_min(self.y, v.y), update_max(self.z, v.z))

\* Vector::update_min, Vector::update_max
Vector_update_min(self, v) ==
    Vec(update_min(self.x, v.x), update_min(self.y, v.y), update_min(self.z, v.z))

Vector_update_max(self, v) ==
    Vec(update_max(self.x, v.x), update_max(self.y, v.y), update_max(self.z, v.z))

(* ---------------------------------------------------------------------- *)
(* class Geometry                                                          *)
(* ---------------------------------------------------------------------- *)

Max(a, b) == IF a < b THEN b ELSE a

Min(a, b) == IF b < a THEN b ELSE a

\* ratio with min over max
Geometry_ratio_inverted(w, h) == Div(FromInt(Min(w, h)), FromInt(Max(w, h)))

Geometry_ratio(w, h) == Div(FromInt(Max(w, h)), FromInt(Min(w, h)))

\* contain with the upper bounds inclusive
Geometry_contain_closed(w, h, x, y) == x >= 0 /\ x <= w /\ y >= 0 /\ y <= h

Geometry_contain(w, h, x, y) == x >= 0 /\ x < w /\ y >= 0 /\ y < h

(* ---------------------------------------------------------------------- *)
(* The state: the last call made on the kernel (its operands and what it   *)
(* gave back), and a bounding box under accumulation.                      *)
(* ---------------------------------------------------------------------- *)

VARIABLES call, box

vars == <<call, box>>

\* direction components are multiples of 1/8 up to MaxK/8
MaxK == 9

\* magnitudes range over 2^-MaxExp .. 2^MaxExp
MaxExp == 11

\* Geometry sizes and Coor coordinates range over -MaxDim .. MaxDim
MaxDim == 4

\* operands of == are multiples of EPS/2 up to MaxEq * EPS/2
MaxEq == 3

\* a box takes in up to MaxPoints points after its first
MaxPoints == 3

Comp(k) == k * 2^(FracBits - 3)

Pow2(e) == IF e >= 0 THEN One * 2^e ELSE One \div 2^(-e)

\* the largest real_t below 2^(e+1)
AllOnes(e) == (2^MantBits - 1) * 2^(FracBits + e + 1 - MantBits)

Sorted3(n) == {t \in (0..n) \X (0..n) \X (0..n) : t[1] >= t[2] /\ t[2] >= t[3]}

\* the vectors (i, j, k)/8 with MaxK >= i >= j >= k >= 0
Octant == {Vec(Comp(t[1]), Comp(t[2]), Comp(t[3])) : t \in Sorted3(MaxK)}

\* unit as reflection's assertion measures it
IsUnit(v) == Lt(fabs(Sub(Vector_sqr(v), One)), EPS)

Probes ==
    {Vec(0, 0, One), Vec(0, One, 0), Vec(Comp(1), 0, One), Vec(0, Comp(6), Comp(-5)),
     Vec(0, 0, 0), Vec(0, Comp(4), 0), Vec(Comp(4), Comp(4), Comp(6)), Vec(0, 0, Comp(-9))}

Normals ==
    {Vec(0, 0, One), Vec(One, 0, 0), Vec(0, Comp(7), Comp(4)), Vec(Comp(5), Comp(5), Comp(4))}

\* directions heading into the surface: the near-unit vectors of the octant,
\* negated, with their components rotated
Incident ==
    UNION {{Vector_neg(v), Vec(Neg(v.z), Neg(v.x), Neg(v.y)),
            Vec(Neg(v.y), Neg(v.z), Neg(v.x)), Vec(v.z, Neg(v.y), Neg(v.x))} :
           v \in {u \in Octant : IsUnit(u)}}

Densities ==
    {Pow2(e) : e \in (-MaxExp)..MaxExp}
        \cup {-One, 3 * Pow2(-1), 3 * Pow2(-2), 65, AllOnes(10)}

\* vectors of every magnitude: (i, j, k)/8 * 2^e, and their negations
Scaled ==
    UNION {{Vec(Mul(Comp(t[1]), Pow2(e)), Mul(Comp(t[2]), Pow2(e)), Mul(Comp(t[3]), Pow2(e))),
            Vec(Mul(Comp(-t[1]), Pow2(e)), Mul(Comp(t[3]), Pow2(e)), Mul(Comp(-t[2]), Pow2(e)))} :
           <<t, e>> \in Sorted3(3) \X ((-MaxExp)..MaxExp)}

Scaled2 == {Vec2(v.x, v.y) : v \in Scaled}

Coors == {Vec2(x, y) : x, y \in (-MaxDim)..MaxDim}

\* a few of them, and some at the ends of int
CoorsWide ==
    {Vec2(x, y) : x \in {-MaxDim, 0, 1, MaxDim}, y \in {0, -1}}
        \cup {Vec2(IntMax, 0), Vec2(IntMin, -1)}

CoorsFew == {Vec2(-MaxDim, 0), Vec2(1, -1), Vec2(IntMax, 0)}

\* coordinates of every magnitude
Coords ==
    {0} \cup UNION {{Pow2(e), -Pow2(e)} : e \in (-MaxExp)..MaxExp}
        \cup UNION {{AllOnes(e), -AllOnes(e)} : e \in {-2, 4, 5, 10}}

CoordsFew ==
    {0, One, -One, Pow2(-MaxExp), -Pow2(-MaxExp), Pow2(6), -Pow2(6),
     Pow2(MaxExp), -Pow2(MaxExp), AllOnes(5), -AllOnes(10)}

Points == {Vec(a, t[1], t[2]) : a \in Coords, t \in {<<0, 0>>, <<Pow2(-6), -AllOnes(4)>>}}

PointsFew == {p \in Points : p.x \in CoordsFew}

Points2 == {Vec2(p.x, p.z) : p \in Points}

Points2Few == {Vec2(p.x, p.z) : p \in PointsFew}

\* operands of ==: a few steps of EPS/2 apart, and some that are far, huge or not finite
EqVecs ==
    {Vec(i * (EPS \div 2), t[1], t[2]) :
        i \in 0..MaxEq, t \in {<<0, 0>>, <<One, EPS \div 2>>, <<3 * (EPS \div 4), -One>>}}
      \cup {Vec(AllOnes(11), 0, 0), Vec(-AllOnes(11), 0, 0), Vec(PInf, 0, 0), Vec(0, NaN, 0)}

EqVecs2 == {Vec2(v.x, v.z) : v \in EqVecs}

Finite3(v) == isfinite(v.x) /\ isfinite(v.y) /\ isfinite(v.z)

Finite2(v) == isfinite(v.x) /\ isfinite(v.y)

Init == call = [op |-> "none"] /\ box = [kind |-> "none"]

\* a call is made on a kernel that is idle
Idle == call.op = "none"

Reflection ==
    /\ Idle
    /\ \E self \in Octant :
        \E v \in {self, Vector_neg(self)} \cup Probes :
          call' = [op |-> "reflection", self |-> self, v |-> v,
                   ret |-> Vector_reflection(self, v)]
    /\ UNCHANGED box

Transmission ==
    /\ Idle
    /\ \E self \in Normals, v_in \in Incident, density \in Densities :
          call' = [op |-> "transmission", self |-> self, v_in |-> v_in,
                   density |-> density,
                   ret |-> Vector_transmission(self, v_in, density)]
    /\ UNCHANGED box

\* v.get_normalized() of a Vector
Normalize ==
    /\ Idle
    /\ \E v \in Scaled :
          call' = [op |-> "get_normalized", T |-> "Vector", self |-> v,
                   ret |-> Vector_get_normalized(v)]
    /\ UNCHANGED box

\* v.get_normalized() of a Vec2D or a Coor
Normalize2D ==
    /\ Idle
    /\ \E T \in {"real_t", "int"} :
        \E v \in IF T = "int" THEN Coors ELSE Scaled2 :
          call' = [op |-> "get_normalized", T |-> T, self |-> v,
                   ret |-> Vector2D_get_normalized(T, v)]
    /\ UNCHANGED box

\* p0 + Vector(p0, p1), compared with p1
RoundTrip ==
    /\ Idle
    /\ \E p0 \in Points, p1 \in PointsFew :
        LET back == Vector_plus(p0, Vector_from(p0, p1))
        IN  call' = [op |-> "roundtrip", T |-> "Vector", p0 |-> p0, p1 |-> p1,
                     back |-> back, eq |-> Vector_eq(back, p1)]
    /\ UNCHANGED box

\* p0 + Vector2D<T>(p0, p1), compared with p1
RoundTrip2D ==
    /\ Idle
    /\ \E T \in {"real_t", "int"} :
        \E p0 \in IF T = "int" THEN CoorsWide ELSE Points2,
           p1 \in IF T = "int" THEN CoorsFew ELSE Points2Few :
          \E d \in Vector2D_from(T, p0, p1) :
            \E back \in Vector2D_plus(T, p0, d) :
              \E eq \in Vector2D_eq(T, back, p1) :
                call' = [op |-> "roundtrip", T |-> T, p0 |-> p0, p1 |-> p1,
                         back |-> back, eq |-> eq]
    /\ UNCHANGED box

\* a == b, b == c, a == c and the like, for three Vectors
Compare ==
    /\ Idle
    /\ \E a, b, c \in EqVecs :
          call' = [op |-> "compare", T |-> "Vector", a |-> a, b |-> b, c |-> c,
                   aa |-> Vector_eq(a, a), ab |-> Vector_eq(a, b),
                   ba |-> Vector_eq(b, a), bc |-> Vector_eq(b, c),
                   ac |-> Vector_eq(a, c), ne |-> Vector_ne(a, b)]
    /\ UNCHANGED box

\* the same for three Vec2D or three Coor (Vector2D has no operator !=)
Compare2D ==
    /\ Idle
    /\ \E T \in {"real_t", "int"} :
        \E a \in IF T = "int" THEN CoorsWide ELSE EqVecs2,
           b \in IF T = "int" THEN CoorsFew ELSE EqVecs2,
           c \in IF T = "int" THEN CoorsWide ELSE EqVecs2 :
          \E aa \in Vector2D_eq(T, a, a), ab \in Vector2D_eq(T, a, b),
             ba \in Vector2D_eq(T, b, a), bc \in Vector2D_eq(T, b, c),
             ac \in Vector2D_eq(T, a, c) :
            call' = [op |-> "compare", T |-> T, a |-> a, b |-> b, c |-> c,
                     aa |-> aa, ab |-> ab, ba |-> ba, bc |-> bc, ac |-> ac]
    /\ UNCHANGED box

\* Geometry(w, h).ratio()
Ratio ==
    /\ Idle
    /\ \E w, h \in (-MaxDim)..MaxDim :
          call' = [op |-> "ratio", w |-> w, h |-> h, ret |-> Geometry_ratio(w, h)]
    /\ UNCHANGED box

\* Geometry(w, h).contain(x, y)
Contain ==
    /\ Idle
    /\ \E w, h \in (-MaxDim)..MaxDim, x, y \in (-1)..(MaxDim + 1) :
          call' = [op |-> "contain", w |-> w, h |-> h, x |-> x, y |-> y,
                   ret |-> Geometry_contain(w, h, x, y)]
    /\ UNCHANGED box

\* the caller takes the result; the kernel is idle again
Return ==
    /\ ~Idle
    /\ call' = [op |-> "none"]
    /\ UNCHANGED box

Next ==
    \/ Reflection
    \/ Transmission
    \/ Normalize
    \/ Normalize2D
    \/ RoundTrip
    \/ RoundTrip2D
    \/ Compare
    \/ Compare2D
    \/ Ratio
    \/ Contain
    \/ Return

Spec == Init /\ [][Next]_vars

(* ---------------------------------------------------------------------- *)
(* Bounding-box accumulation: lo = hi = p_0, then lo.update_min(p_i) and   *)
(* hi.update_max(p_i) for each further point.                              *)
(* ---------------------------------------------------------------------- *)

BoxKinds == {"Vector", "real_t", "int"}

BoxCoords(kind) == IF kind = "int" THEN {-1, 0, 2} ELSE {Comp(-1), 0, Comp(2)}

BoxPoints(kind) ==
    IF kind = "Vector"
    THEN {Vec(a, b, c) : a, b \in BoxCoords(kind), c \in {0, Comp(-3)}}
    ELSE {Vec2(a, b) : a, b \in BoxCoords(kind)}

InitBox ==
    /\ call = [op |-> "none"]
    /\ \E kind \in BoxKinds :
        \E p0 \in BoxPoints(kind) :
          box = [kind |-> kind, lo |-> p0, hi |-> p0, seen |-> {p0}, n |-> 0, arg |-> p0]

\* lo.update_min(p); hi.update_max(p); arg is p as the calls leave it
Accumulate3D ==
    /\ box.kind = "Vector"
    /\ box.n < MaxPoints
    /\ \E p \in BoxPoints(box.kind) :
          box' = [kind |-> box.kind,
                  lo |-> Vector_update_min(box.lo, p),
                  hi |-> Vector_update_max(box.hi, p),
                  seen |-> box.seen \cup {p}, n |-> box.n + 1, arg |-> p]
    /\ UNCHANGED call

Accumulate2D ==
    /\ box.kind \in {"real_t", "int"}
    /\ box.n < MaxPoints
    /\ \E p \in BoxPoints(box.kind) :
          box' = [kind |-> box.kind,
                  lo |-> Vector2D_update_min(box.lo, p),
                  hi |-> Vector2D_update_max(box.hi, p),
                  seen |-> box.seen \cup {p}, n |-> box.n + 1, arg |-> p]
    /\ UNCHANGED call

NextBox == Accumulate3D \/ Accumulate2D

SpecBox == InitBox /\ [][NextBox]_vars

(* ---------------------------------------------------------------------- *)
(* Properties                                                              *)
(* ---------------------------------------------------------------------- *)

\* |a - b| < tol in every component of two finite Vectors
Within(a, b, tol) ==
    /\ Abs(a.x - b.x) < tol
    /\ Abs(a.y - b.y) < tol
    /\ Abs(a.z - b.z) < tol

\* C1: reflection aborts whenever the receiver or the argument is not a unit
\* vector (squared length off 1 by EPS or more), and returns otherwise.
C1_ReflectionAbortsUnlessUnit ==
    call.op = "reflection" =>
        (call.ret.st = "abort" <=> ~(IsUnit(call.self) /\ IsUnit(call.v)))

\* C2, as stated: a unit vector d reflected off the normal d comes back as -d.
C2_SelfReflectionIsNegation ==
    (call.op = "reflection" /\ call.v = call.self /\ IsUnit(call.self)) =>
        (call.ret.st = "ok" /\ Vector_eq(call.ret.v, Vector_neg(call.self)))

\* C2, amended: a unit vector d reflected off the normal d comes back as d, not
\* as -d: as d itself when d.sqr() is exactly 1, and within 3 * EPS of d in
\* every component when d is unit within EPS only.
C2_SelfReflectionIsIdentity ==
    (call.op = "reflection" /\ call.v = call.self /\ IsUnit(call.self)) =>
        /\ call.ret.st = "ok"
        /\ Vector_sqr(call.self) = One => call.ret.v = call.self
        /\ Within(call.ret.v, call.self, 3 * EPS)
        /\ ~Vector_eq(call.ret.v, Vector_neg(call.self))

C2_Witness ==
    /\ call.op = "reflection"
    /\ call.v = call.self
    /\ Vector_sqr(call.self) = One
    /\ call.ret = Returned(call.self)

\* C3: for a unit normal, a unit incident direction and a density that is not
\* zero, transmission returns Vector::infinity(), which isnoraml() rejects,
\* exactly when cos1 < EPS or cos2_sq < 0, and a vector isnoraml() accepts in
\* every other case.
C3_SentinelIsOnlyFailure ==
    (/\ call.op = "transmission"
     /\ IsUnit(call.self) /\ IsUnit(call.v_in)
     /\ call.density # 0) =>
        LET cos1   == Neg(Vector_dot(call.self, call.v_in))
            ratio  == Div(One, call.density)
            cos2sq == Sub(One, Mul(Mul(ratio, ratio), Sub(One, Mul(cos1, cos1))))
            fails  == Lt(cos1, EPS) \/ Lt(cos2sq, 0)
        IN  /\ call.ret.st = "ok"
            /\ fails <=> call.ret.v = Vector_infinity
            /\ fails <=> ~Vector_isnoraml(call.ret.v)

\* C4: with density 1, a unit normal n and a unit incident direction v_in with
\* -(n . v_in) >= EPS, transmission returns v_in (under operator ==); the
\* normal (0,0,1) and v_in = (0,0,-1) give (0,0,-1).
C4_MatchedIndicesPassStraight ==
    (/\ call.op = "transmission"
     /\ call.density = One
     /\ IsUnit(call.self) /\ IsUnit(call.v_in)
     /\ Ge(Neg(Vector_dot(call.self, call.v_in)), EPS)) =>
        /\ call.ret.st = "ok"
        /\ Vector_eq(call.ret.v, call.v_in)
        /\ (call.self = Vec(0, 0, One) /\ call.v_in = Vec(0, 0, -One))
              => call.ret.v = Vec(0, 0, -One)

\* an oblique ray through matched indices
C4_Witness ==
    /\ call.op = "transmission"
    /\ call.density = One
    /\ IsUnit(call.self) /\ IsUnit(call.v_in)
    /\ Ge(Neg(Vector_dot(call.self, call.v_in)), EPS)
    /\ call.v_in # Vector_neg(call.self)
    /\ call.ret.st = "ok"
    /\ Vector_eq(call.ret.v, call.v_in)

\* C5, as stated: whenever min(w, h) is not 0, ratio() is max(w,h)/min(w,h)
\* and is at least 1.
C5_RatioAtLeastOne ==
    (call.op = "ratio" /\ Min(call.w, call.h) # 0) =>
        /\ call.ret = Div(FromInt(Max(call.w, call.h)), FromInt(Min(call.w, call.h)))
        /\ Ge(call.ret, One)

\* C5, amended: whenever min(w, h) is positive, ratio() is max(w,h)/min(w,h)
\* as a real number and is at least 1.
C5_RatioOfPositiveSizes ==
    (call.op = "ratio" /\ Min(call.w, call.h) > 0) =>
        /\ call.ret = Div(FromInt(Max(call.w, call.h)), FromInt(Min(call.w, call.h)))
        /\ Ge(call.ret, One)

\* a ratio that is not a whole number
C5_Witness ==
    /\ call.op = "ratio"
    /\ Min(call.w, call.h) > 0
    /\ Max(call.w, call.h) % Min(call.w, call.h) # 0
    /\ Gt(call.ret, One)

\* C6: v.get_normalized().mod() is within EPS of 1 for every v that is not
\* zero, for Vector, Vec2D and Coor, whenever the call returns.
C6_NormalizedHasUnitLength ==
    (call.op = "get_normalized" /\ call.ret.st = "ok") =>
        IF call.T = "Vector"
        THEN call.self # Vec(0, 0, 0)
                => Lt(fabs(Sub(Vector_mod(call.ret.v), One)), EPS)
        ELSE call.self # Vec2(0, 0)
                => Lt(fabs(Sub(Vector2D_mod(call.T, call.ret.v), One)), EPS)

\* C7: contain(x, y) is true exactly when 0 <= x < w and 0 <= y < h; so it is
\* false everywhere when w <= 0 or h <= 0.
C7_ContainIsHalfOpen ==
    call.op = "contain" =>
        /\ call.ret <=> (call.x \in 0..(call.w - 1) /\ call.y \in 0..(call.h - 1))
        /\ (call.w <= 0 \/ call.h <= 0) => ~call.ret

\* Geometry(4,2).contain(3,1)
C7_Witness ==
    call = [op |-> "contain", w |-> 4, h |-> 2, x |-> 3, y |-> 1, ret |-> TRUE]

\* the coordinates up to which one subtraction and one addition round by less
\* than EPS together: EPS * 2^(MantBits - 2)
SmallCoord(c) == isfinite(c) /\ Abs(c) <= EPS * 2^(MantBits - 2)

\* C8, as stated: p0 + Vector(p0, p1) == p1 for all points, and the same for
\* Vector2D<T>.
C8_RoundTripAlways == call.op = "roundtrip" => call.eq

\* C8, amended: p0 + Vector(p0, p1) == p1 for all points whose coordinates are
\* at most EPS * 2^(MantBits - 2) in magnitude; the same for Vec2D; and for
\* Coor whenever p1 - p0 does not overflow int.
C8_RoundTripOfSmallCoordinates ==
    call.op = "roundtrip" =>
        IF call.T = "Vector"
        THEN (\A p \in {call.p0, call.p1} :
                 SmallCoord(p.x) /\ SmallCoord(p.y) /\ SmallCoord(p.z)) => call.eq
        ELSE IF call.T = "real_t"
        THEN (\A p \in {call.p0, call.p1} : SmallCoord(p.x) /\ SmallCoord(p.y))
                 => call.eq
        ELSE (/\ call.p1.x - call.p0.x \in IntRange
              /\ call.p1.y - call.p0.y \in IntRange) => (call.eq /\ call.back = call.p1)

\* a round trip that rounds, and is still within EPS
C8_Witness ==
    /\ call.op = "roundtrip"
    /\ call.T = "Vector"
    /\ \A p \in {call.p0, call.p1} : SmallCoord(p.x) /\ SmallCoord(p.y) /\ SmallCoord(p.z)
    /\ call.back # call.p1
    /\ call.eq

\* the components of a box of the kind
Comps(kind) == IF kind = "Vector" THEN {"x", "y", "z"} ELSE {"x", "y"}

\* C9: after every step each component of lo is the minimum and each
\* component of hi the maximum of that component over the points seen, so
\* lo <= p <= hi for every point seen and lo <= hi; the argument of the calls
\* is left as it was passed.
C9_BoxBoundsSeenPoints ==
    box.kind # "none" =>
        /\ \A c \in Comps(box.kind) :
              /\ \E p \in box.seen : box.lo[c] = p[c]
              /\ \E p \in box.seen : box.hi[c] = p[c]
              /\ \A p \in box.seen : box.lo[c] <= p[c] /\ p[c] <= box.hi[c]
              /\ box.lo[c] <= box.hi[c]
        /\ box.arg \in box.seen

\* a box of three or more points, none of which is a corner of it
C9_Witness ==
    /\ box.kind = "Vector"
    /\ Cardinality(box.seen) >= 3
    /\ box.lo \notin box.seen
    /\ box.hi \notin box.seen

\* the operands of a comparison are finite, and for Coor no difference of two
\* of them overflows int
Comparable ==
    IF call.T = "Vector"
    THEN Finite3(call.a) /\ Finite3(call.b) /\ Finite3(call.c)
    ELSE IF call.T = "real_t"
    THEN Finite2(call.a) /\ Finite2(call.b) /\ Finite2(call.c)
    ELSE \A p, q \in {call.a, call.b, call.c} :
            p.x - q.x \in IntRange /\ p.y - q.y \in IntRange

\* C10, as stated: operator == is reflexive, symmetric and transitive on
\* finite vectors, and Vector::operator != is its negation.
C10_EqIsEquivalence ==
    (call.op = "compare" /\ Comparable) =>
        /\ call.aa
        /\ call.ab <=> call.ba
        /\ (call.ab /\ call.bc) => call.ac
        /\ call.T = "Vector" => (call.ne <=> ~call.ab)

\* C10, amended: operator == is reflexive and symmetric on finite vectors, and
\* Vector::operator != is its negation; it is transitive for Coor only, whose
\* differences are whole numbers (and must not overflow int).
C10_EqIsReflexiveSymmetric ==
    (call.op = "compare" /\ Comparable) =>
        /\ call.aa
        /\ call.ab <=> call.ba
        /\ call.T = "int" => ((call.ab /\ call.bc) => call.ac)
        /\ call.T = "Vector" => (call.ne <=> ~call.ab)

\* three finite Vectors with a == b and b == c and not a == c
C10_Witness ==
    /\ call.op = "compare"
    /\ call.T = "Vector"
    /\ Comparable
    /\ call.ab /\ call.bc /\ ~call.ac

====
